---- MODULE Spec2Model ----
(***************************************************************************)
(* A model of the boid simulation of src/main.c: the agent store (struct   *)
(* of arrays), the uniform spatial grid, the three steering systems, the   *)
(* integrator, the boundary wrap and the main loop that runs them.         *)
(*                                                                         *)
(* Numbers.  The program computes in 32-bit floats.  The model computes in *)
(* decimal fixed point: a float f is the integer f * SCALE, and every      *)
(* operation whose exact result is not representable (a division, a        *)
(* square root, a product of two fractions) is rounded to the nearest      *)
(* representable value, as a float operation is.  Additions, subtractions  *)
(* and comparisons are exact.                                              *)
(***************************************************************************)
EXTENDS Integers, Sequences, FiniteSets, TLC

\* Fixed-point resolution: two decimal digits (0.01).
SCALE == 10 * 10

\* The fixed-point value of the integer n.
F(n) == n * SCALE

---------------------------------------------------------------------------
\* Program constants (src/main.c).

SCREEN_WIDTH == 2560
SCREEN_HEIGHT == 1440
CELL_SIZE == 50
GRID_WIDTH == SCREEN_WIDTH \div CELL_SIZE + 1
GRID_HEIGHT == SCREEN_HEIGHT \div CELL_SIZE + 1

\* Capacities.  The program sets MAX_ENTITIES_PER_CELL to 100 and
\* MAX_ENTITIES to 8000; the model keeps their roles and scales them down.
MAX_ENTITIES_PER_CELL == 2
MAX_ENTITIES == 2

\* The size of the candidate buffer of each steering system.
NearbyCapacity == MAX_ENTITIES_PER_CELL * 9

\* border argument of CreateRandomEntity in main.
Border == 20

\* boidParams as initialised.
DefaultParams ==
    [ perceptionRadius |-> F(20),
      separationRadius |-> F(10),
      maxSpeed         |-> F(5),
      maxForce         |-> (7 * SCALE) \div 10,
      separationWeight |-> F(3),
      alignmentWeight  |-> F(1),
      cohesionWeight   |-> SCALE \div 2 ]

\* The step of a weight per frame a key is held: 0.01f.
WeightStep == SCALE \div 100

---------------------------------------------------------------------------
\* Bounds of the model.

\* Frames the main loop runs before the window must close.
MaxTicks == 2
\* Calls of the store and grid interfaces in the interface specifications.
MaxCalls == 3

---------------------------------------------------------------------------
\* Arithmetic.

Abs(a) == IF a < 0 THEN -a ELSE a
Min(a, b) == IF a < b THEN a ELSE b

\* (int)(a / b) for b > 0: C's conversion truncates toward zero.
TruncDiv(a, b) == IF a >= 0 THEN a \div b ELSE -((-a) \div b)

\* a / b for b > 0, rounded to the nearest integer (ties away from zero).
RoundDiv(a, b) ==
    IF a >= 0 THEN (2 * a + b) \div (2 * b) ELSE -((2 * (-a) + b) \div (2 * b))

\* Float product and quotient of two fixed-point values.
FMul(a, b) == RoundDiv(a * b, SCALE)
FDiv(a, b) == RoundDiv(a * SCALE, b)

\* floor(sqrt(n)) for n >= 0.
RECURSIVE FloorSqrt(_)
FloorSqrt(n) ==
    IF n < 2 THEN n
    ELSE LET s == 2 * FloorSqrt(n \div 4)
         IN  IF (s + 1) * (s + 1) > n THEN s ELSE s + 1

\* sqrtf(n), rounded to the nearest integer.  For n = a*a + b*b of two
\* fixed-point values the result is the fixed-point length of (a, b).
Sqrt(n) ==
    LET r == FloorSqrt(n)
    IN  IF n - r * r > r THEN r + 1 ELSE r

---------------------------------------------------------------------------
\* Vectors.

Vec(x, y) == [x |-> x, y |-> y]
Zero == Vec(0, 0)

Vector2Add(a, b) == Vec(a.x + b.x, a.y + b.y)
Vector2Subtract(a, b) == Vec(a.x - b.x, a.y - b.y)

\* The squared length, exact (in units of 1/SCALE^2).
MagSq(v) == v.x * v.x + v.y * v.y

Vector2Distance(a, b) == Sqrt(MagSq(Vector2Subtract(a, b)))

Vector2Limit(v, max) ==
    LET magSq == MagSq(v)
    IN  IF magSq > max * max
        THEN LET mag == Sqrt(magSq)
             IN  Vec(FMul(FDiv(v.x, mag), max), FMul(FDiv(v.y, mag), max))
        ELSE v

Vector2SetMag(v, mag) ==
    LET currentMag == Sqrt(MagSq(v))
    IN  IF currentMag > 0
        THEN Vec(FMul(FDiv(v.x, currentMag), mag), FMul(FDiv(v.y, currentMag), mag))
        ELSE v

---------------------------------------------------------------------------
\* The spatial grid: cells[GRID_WIDTH][GRID_HEIGHT], each cell the
\* sequence entities[0 .. count-1] of the ids it holds.  The grid is kept
\* as the map of its cells of count > 0; every other cell is as memset
\* left it.

CellXs == 0 .. GRID_WIDTH - 1
CellYs == 0 .. GRID_HEIGHT - 1

EmptyGrid == [c \in {} |-> << >>]

\* grid->cells[x][y]
Cell(grid, x, y) == IF <<x, y>> \in DOMAIN grid THEN grid[<<x, y>>] ELSE << >>

\* The grid with cells[x][y] set to ids.
WithCell(grid, x, y, ids) ==
    [c \in DOMAIN grid \cup {<<x, y>>} |-> IF c = <<x, y>> THEN ids ELSE grid[c]]

ClearSpatialGrid(grid) == EmptyGrid

\* The cell index of a coordinate before clamping.
CellIndex(c) == TruncDiv(c, CELL_SIZE * SCALE)

ClampCell(g, dim) == IF g < 0 THEN 0 ELSE IF g >= dim THEN dim - 1 ELSE g

\* AddToSpatialGrid without the capacity test.
AddToSpatialGridUnchecked(grid, entityId, pos) ==
    LET gridX == ClampCell(CellIndex(pos.x), GRID_WIDTH)
        gridY == ClampCell(CellIndex(pos.y), GRID_HEIGHT)
    IN  WithCell(grid, gridX, gridY, Append(Cell(grid, gridX, gridY), entityId))

AddToSpatialGrid(grid, entityId, pos) ==
    LET gridX == ClampCell(CellIndex(pos.x), GRID_WIDTH)
        gridY == ClampCell(CellIndex(pos.y), GRID_HEIGHT)
        cell  == Cell(grid, gridX, gridY)
    IN  IF Len(cell) < MAX_ENTITIES_PER_CELL
        THEN WithCell(grid, gridX, gridY, Append(cell, entityId))
        ELSE grid

\* The ids of the cells x .. maxX of row y, in order.
RECURSIVE CollectRow(_, _, _, _)
CollectRow(grid, y, x, maxX) ==
    IF x > maxX THEN << >>
    ELSE Cell(grid, x, y) \o CollectRow(grid, y, x + 1, maxX)

\* The ids of the rows y .. maxY, each from minX to maxX, in order.
RECURSIVE CollectRows(_, _, _, _, _)
CollectRows(grid, y, maxY, minX, maxX) ==
    IF y > maxY THEN << >>
    ELSE CollectRow(grid, y, minX, maxX) \o CollectRows(grid, y + 1, maxY, minX, maxX)

\* outEntities[0 .. *outCount - 1].
QuerySpatialGrid(grid, pos, radius, maxResults) ==
    LET minX0 == CellIndex(pos.x - radius)
        maxX0 == CellIndex(pos.x + radius)
        minY0 == CellIndex(pos.y - radius)
        maxY0 == CellIndex(pos.y + radius)
        minX  == IF minX0 < 0 THEN 0 ELSE minX0
        maxX  == IF maxX0 >= GRID_WIDTH THEN GRID_WIDTH - 1 ELSE maxX0
        minY  == IF minY0 < 0 THEN 0 ELSE minY0
        maxY  == IF maxY0 >= GRID_HEIGHT THEN GRID_HEIGHT - 1 ELSE maxY0
        all   == CollectRows(grid, minY, maxY, minX, maxX)
    IN  SubSeq(all, 1, Min(Len(all), maxResults))

---------------------------------------------------------------------------
\* The agent store: parallel arrays indexed by entity id.

Ids == 0 .. MAX_ENTITIES - 1

\* The palette of GetRandomColor: blue, purple, pink, orange, yellow.
Palette == << "blue", "purple", "pink", "orange", "yellow" >>
PaletteColors == { Palette[k] : k \in 1 .. Len(Palette) }

VARIABLES
    entityCount,    \* int entityCount
    entities,       \* entities[i].active
    positions,      \* Vector2 positions[]
    velocities,     \* Vector2 velocities[]
    accelerations,  \* Vector2 accelerations[]
    colors,         \* Color colors[], by name
    boidParams,     \* BoidParams boidParams
    spatialGrid,    \* SpatialGrid spatialGrid
    pc,             \* the position of main
    tick,           \* frames completed by the main loop
    returned,       \* the values CreateEntity has returned, in call order
    added,          \* the AddToSpatialGrid calls since the last clear
    outEntities     \* the result of the last QuerySpatialGrid call

vars == << entityCount, entities, positions, velocities, accelerations, colors,
           boidParams, spatialGrid, pc, tick, returned, added, outEntities >>

storeVars == << entityCount, entities, positions, velocities, accelerations, colors >>

\* The store as one value.
Store ==
    [ entityCount   |-> entityCount,
      entities      |-> entities,
      positions     |-> positions,
      velocities    |-> velocities,
      accelerations |-> accelerations,
      colors        |-> colors ]

\* The zero-initialised globals.
EmptyStore ==
    [ entityCount   |-> 0,
      entities      |-> [i \in Ids |-> FALSE],
      positions     |-> [i \in Ids |-> Zero],
      velocities    |-> [i \in Ids |-> Zero],
      accelerations |-> [i \in Ids |-> Zero],
      colors        |-> [i \in Ids |-> "none"] ]

\* CreateEntity with the capacity test off by one (> for >=).
CreateEntityOffByOne(st, position, velocity, color) ==
    IF st.entityCount > MAX_ENTITIES
    THEN [st |-> st, id |-> -1]
    ELSE LET id == st.entityCount
         IN  [ st |-> [ entityCount   |-> st.entityCount + 1,
                        entities      |-> [st.entities EXCEPT ![id] = TRUE],
                        positions     |-> [st.positions EXCEPT ![id] = position],
                        velocities    |-> [st.velocities EXCEPT ![id] = velocity],
                        accelerations |-> [st.accelerations EXCEPT ![id] = Zero],
                        colors        |-> [st.colors EXCEPT ![id] = color] ],
               id |-> id ]

\* The store after the call and the id it returns.
CreateEntity(st, position, velocity, color) ==
    IF st.entityCount >= MAX_ENTITIES
    THEN [st |-> st, id |-> -1]
    ELSE LET id == st.entityCount
         IN  [ st |-> [ entityCount   |-> st.entityCount + 1,
                        entities      |-> [st.entities EXCEPT ![id] = TRUE],
                        positions     |-> [st.positions EXCEPT ![id] = position],
                        velocities    |-> [st.velocities EXCEPT ![id] = velocity],
                        accelerations |-> [st.accelerations EXCEPT ![id] = Zero],
                        colors        |-> [st.colors EXCEPT ![id] = color] ],
               id |-> id ]

---------------------------------------------------------------------------
\* The systems, as functions of the arrays they are passed.

RECURSIVE GridInsertFrom(_, _, _, _, _)
GridInsertFrom(grid, pos, ent, count, i) ==
    IF i >= count THEN grid
    ELSE GridInsertFrom(IF ent[i] THEN AddToSpatialGrid(grid, i, pos[i]) ELSE grid,
                        pos, ent, count, i + 1)

SpatialGridUpdateSystem(grid, pos, ent, count) ==
    GridInsertFrom(ClearSpatialGrid(grid), pos, ent, count, 0)

\* The separation test with the radius itself in range (<= for <).
SeparationInRangeInclusive(dist, params) == dist <= params.separationRadius /\ dist > 0

\* The distance tests of the three steering systems.
SeparationInRange(dist, params) == dist < params.separationRadius /\ dist > 0
AlignmentInRange(dist, params) == dist < params.perceptionRadius
CohesionInRange(dist, params) == dist < params.perceptionRadius

\* The loop over the candidates nearby[k ..], from steering and total so far.
RECURSIVE SeparationScan(_, _, _, _, _, _, _, _)
SeparationScan(nearby, k, i, pos, ent, params, steering, total) ==
    IF k > Len(nearby) THEN [steering |-> steering, total |-> total]
    ELSE LET j == nearby[k]
         IN  IF i = j \/ ~ent[j]
             THEN SeparationScan(nearby, k + 1, i, pos, ent, params, steering, total)
             ELSE LET dist == Vector2Distance(pos[i], pos[j])
                  IN  IF SeparationInRange(dist, params)
                      THEN LET d    == Vector2Subtract(pos[i], pos[j])
                               diff == Vec(FDiv(d.x, dist), FDiv(d.y, dist))
                           IN  SeparationScan(nearby, k + 1, i, pos, ent, params,
                                              Vector2Add(steering, diff), total + 1)
                      ELSE SeparationScan(nearby, k + 1, i, pos, ent, params,
                                          steering, total)

RECURSIVE AlignmentScan(_, _, _, _, _, _, _, _, _)
AlignmentScan(nearby, k, i, pos, vel, ent, params, steering, total) ==
    IF k > Len(nearby) THEN [steering |-> steering, total |-> total]
    ELSE LET j == nearby[k]
         IN  IF i = j \/ ~ent[j]
             THEN AlignmentScan(nearby, k + 1, i, pos, vel, ent, params, steering, total)
             ELSE LET dist == Vector2Distance(pos[i], pos[j])
                  IN  IF AlignmentInRange(dist, params)
                      THEN AlignmentScan(nearby, k + 1, i, pos, vel, ent, params,
                                         Vector2Add(steering, vel[j]), total + 1)
                      ELSE AlignmentScan(nearby, k + 1, i, pos, vel, ent, params,
                                         steering, total)

RECURSIVE CohesionScan(_, _, _, _, _, _, _, _)
CohesionScan(nearby, k, i, pos, ent, params, steering, total) ==
    IF k > Len(nearby) THEN [steering |-> steering, total |-> total]
    ELSE LET j == nearby[k]
         IN  IF i = j \/ ~ent[j]
             THEN CohesionScan(nearby, k + 1, i, pos, ent, params, steering, total)
             ELSE LET dist == Vector2Distance(pos[i], pos[j])
                  IN  IF CohesionInRange(dist, params)
                      THEN CohesionScan(nearby, k + 1, i, pos, ent, params,
                                        Vector2Add(steering, pos[j]), total + 1)
                      ELSE CohesionScan(nearby, k + 1, i, pos, ent, params,
                                        steering, total)

\* steering.x /= total; steering.y /= total.
Average(steering, total) == Vec(RoundDiv(steering.x, total), RoundDiv(steering.y, total))

\* steering.x *= weight; steering.y *= weight.
Weighted(steering, weight) == Vec(FMul(steering.x, weight), FMul(steering.y, weight))

\* What agent i's separation pass finds, and the force it adds to acc[i].
SeparationFound(grid, pos, ent, params, i) ==
    SeparationScan(QuerySpatialGrid(grid, pos[i], params.separationRadius, NearbyCapacity),
                   1, i, pos, ent, params, Zero, 0)

\* SeparationForce with the weight applied before the force is limited.
SeparationForceWeightFirst(grid, pos, vel, ent, params, i) ==
    LET found == SeparationFound(grid, pos, ent, params, i)
    IN  IF found.total > 0
        THEN LET s1 == Average(found.steering, found.total)
                 s2 == Vector2SetMag(s1, params.maxSpeed)
                 s3 == Vector2Subtract(s2, vel[i])
             IN  Vector2Limit(Weighted(s3, params.separationWeight), params.maxForce)
        ELSE Zero

SeparationForce(grid, pos, vel, ent, params, i) ==
    LET found == SeparationFound(grid, pos, ent, params, i)
    IN  IF found.total > 0
        THEN LET s1 == Average(found.steering, found.total)
                 s2 == Vector2SetMag(s1, params.maxSpeed)
                 s3 == Vector2Subtract(s2, vel[i])
                 s4 == Vector2Limit(s3, params.maxForce)
             IN  Weighted(s4, params.separationWeight)
        ELSE Zero

AlignmentFound(grid, pos, vel, ent, params, i) ==
    AlignmentScan(QuerySpatialGrid(grid, pos[i], params.perceptionRadius, NearbyCapacity),
                  1, i, pos, vel, ent, params, Zero, 0)

AlignmentForce(grid, pos, vel, ent, params, i) ==
    LET found == AlignmentFound(grid, pos, vel, ent, params, i)
    IN  IF found.total > 0
        THEN LET s1 == Average(found.steering, found.total)
                 s2 == Vector2SetMag(s1, params.maxSpeed)
                 s3 == Vector2Subtract(s2, vel[i])
                 s4 == Vector2Limit(s3, params.maxForce)
             IN  Weighted(s4, params.alignmentWeight)
        ELSE Zero

CohesionFound(grid, pos, ent, params, i) ==
    CohesionScan(QuerySpatialGrid(grid, pos[i], params.perceptionRadius, NearbyCapacity),
                 1, i, pos, ent, params, Zero, 0)

CohesionForce(grid, pos, vel, ent, params, i) ==
    LET found == CohesionFound(grid, pos, ent, params, i)
    IN  IF found.total > 0
        THEN LET s1 == Average(found.steering, found.total)
                 s2 == Vector2Subtract(s1, pos[i])
                 s3 == Vector2SetMag(s2, params.maxSpeed)
                 s4 == Vector2Subtract(s3, vel[i])
                 s5 == Vector2Limit(s4, params.maxForce)
             IN  Weighted(s5, params.cohesionWeight)
        ELSE Zero

\* Each system returns the acceleration array it leaves.  Iteration i reads
\* the grid, pos, vel and ent and writes acc[i] alone.
BoidSeparationSystem(grid, pos, vel, acc, ent, count, params) ==
    [i \in Ids |->
        IF i < count /\ ent[i]
        THEN Vector2Add(acc[i], SeparationForce(grid, pos, vel, ent, params, i))
        ELSE acc[i]]

\* BoidAlignmentSystem storing its force in acc[i] instead of adding it.
BoidAlignmentSystemAssigns(grid, pos, vel, acc, ent, count, params) ==
    [i \in Ids |->
        IF i < count /\ ent[i]
        THEN AlignmentForce(grid, pos, vel, ent, params, i)
        ELSE acc[i]]

BoidAlignmentSystem(grid, pos, vel, acc, ent, count, params) ==
    [i \in Ids |->
        IF i < count /\ ent[i]
        THEN Vector2Add(acc[i], AlignmentForce(grid, pos, vel, ent, params, i))
        ELSE acc[i]]

BoidCohesionSystem(grid, pos, vel, acc, ent, count, params) ==
    [i \in Ids |->
        IF i < count /\ ent[i]
        THEN Vector2Add(acc[i], CohesionForce(grid, pos, vel, ent, params, i))
        ELSE acc[i]]

AccelerationResetSystem(acc, ent, count) ==
    [i \in Ids |-> IF i < count /\ ent[i] THEN Zero ELSE acc[i]]

\* PhysicsSystem without the call of Vector2Limit.
PhysicsSystemNoLimit(pos, vel, acc, ent, count, maxSpeed) ==
    LET newVel == [i \in Ids |->
                     IF i < count /\ ent[i] THEN Vector2Add(vel[i], acc[i]) ELSE vel[i]]
    IN  [ vel |-> newVel,
          pos |-> [i \in Ids |->
                     IF i < count /\ ent[i]
                     THEN Vector2Add(pos[i], newVel[i])
                     ELSE pos[i]] ]

\* The velocity and position arrays PhysicsSystem leaves.
PhysicsSystem(pos, vel, acc, ent, count, maxSpeed) ==
    LET newVel == [i \in Ids |->
                     IF i < count /\ ent[i]
                     THEN Vector2Limit(Vector2Add(vel[i], acc[i]), maxSpeed)
                     ELSE vel[i]]
    IN  [ vel |-> newVel,
          pos |-> [i \in Ids |->
                     IF i < count /\ ent[i]
                     THEN Vector2Add(pos[i], newVel[i])
                     ELSE pos[i]] ]

\* WrapAxis with the edges themselves wrapped (<= for <, >= for >).
WrapAxisInclusive(c, extent) ==
    LET c1 == IF c <= 0 THEN F(extent) ELSE c
    IN  IF c1 >= F(extent) THEN 0 ELSE c1

\* One axis of WrapAroundSystem: the two tests in sequence.
WrapAxis(c, extent) ==
    LET c1 == IF c < 0 THEN F(extent) ELSE c
    IN  IF c1 > F(extent) THEN 0 ELSE c1

\* WrapAroundSystem with the y tests written against width.
WrapAroundSystemOneExtent(pos, ent, count, width, height) ==
    [i \in Ids |->
        IF i < count /\ ent[i]
        THEN Vec(WrapAxis(pos[i].x, width), WrapAxis(pos[i].y, width))
        ELSE pos[i]]

WrapAroundSystem(pos, ent, count, width, height) ==
    [i \in Ids |->
        IF i < count /\ ent[i]
        THEN Vec(WrapAxis(pos[i].x, width), WrapAxis(pos[i].y, height))
        ELSE pos[i]]

---------------------------------------------------------------------------
\* Inputs.

\* Values of GetRandomValue(border, width - border) and
\* GetRandomValue(border, height - border), as positions.
RandomPositions ==
    { Vec(F(Border), F(Border)),
      Vec(F(Border + 1), F(Border)),
      Vec(F(Border + 10), F(Border + 5)) }

\* Values of GetRandomValue(-4, 4) * 0.25f on each axis.
RandomVelocities ==
    { Vec((n * SCALE) \div 4, (m * SCALE) \div 4) : <<n, m>> \in { <<4, -4>>, <<-3, 1>> } }

\* Values of GetRandomValue(0, 4) in GetRandomColor.  The colour is read by
\* the renderer alone; main is run with one of them.
RandomColors == {Palette[3]}

\* The weight keys that may be down in a frame.
KeyChords == { {}, {"ONE", "THREE", "FIVE"}, {"TWO", "FOUR", "SIX"} }

---------------------------------------------------------------------------
\* main.

\* The globals before main runs.
Init ==
    /\ entityCount = EmptyStore.entityCount
    /\ entities = EmptyStore.entities
    /\ positions = EmptyStore.positions
    /\ velocities = EmptyStore.velocities
    /\ accelerations = EmptyStore.accelerations
    /\ colors = EmptyStore.colors
    /\ boidParams = DefaultParams
    /\ spatialGrid = EmptyGrid
    /\ pc = "create"
    /\ tick = 0
    /\ returned = << >>
    /\ added = << >>
    /\ outEntities = << >>

SetStore(st) ==
    /\ entityCount' = st.entityCount
    /\ entities' = st.entities
    /\ positions' = st.positions
    /\ velocities' = st.velocities
    /\ accelerations' = st.accelerations
    /\ colors' = st.colors

\* One iteration of the creation loop of main, which runs MAX_ENTITIES
\* times: CreateRandomEntity draws the agent and calls CreateEntity.
CreateRandomEntity ==
    /\ pc = "create"
    /\ \E position \in RandomPositions, velocity \in RandomVelocities,
          color \in RandomColors :
          LET r == CreateEntity(Store, position, velocity, color)
          IN  /\ SetStore(r.st)
              /\ pc' = IF Len(returned) + 1 < MAX_ENTITIES THEN "create" ELSE "loop"
              /\ returned' = Append(returned, r.id)
    /\ UNCHANGED << boidParams, spatialGrid, tick, added, outEntities >>

\* WindowShouldClose() is true: the loop ends.
WindowShouldClose ==
    /\ pc = "loop"
    /\ pc' = "closed"
    /\ UNCHANGED << storeVars, boidParams, spatialGrid, tick, returned, added,
                    outEntities >>

\* The weights after the six IsKeyDown tests, in order.
AdjustWeights(params, keys) ==
    LET sep == params.separationWeight
                 + (IF "ONE" \in keys THEN WeightStep ELSE 0)
                 - (IF "TWO" \in keys THEN WeightStep ELSE 0)
        ali == params.alignmentWeight
                 + (IF "THREE" \in keys THEN WeightStep ELSE 0)
                 - (IF "FOUR" \in keys THEN WeightStep ELSE 0)
        coh == params.cohesionWeight
                 + (IF "FIVE" \in keys THEN WeightStep ELSE 0)
                 - (IF "SIX" \in keys THEN WeightStep ELSE 0)
    IN  [params EXCEPT !.separationWeight = sep,
                       !.alignmentWeight = ali,
                       !.cohesionWeight = coh]

\* The head of a frame: the window stays open and the keys are read.
HandleInput ==
    /\ pc = "loop"
    /\ tick < MaxTicks
    /\ \E keys \in KeyChords : boidParams' = AdjustWeights(boidParams, keys)
    /\ pc' = "grid"
    /\ UNCHANGED << storeVars, spatialGrid, tick, returned, added, outEntities >>

RebuildGrid ==
    /\ pc = "grid"
    /\ spatialGrid' = SpatialGridUpdateSystem(spatialGrid, positions, entities,
                                              entityCount)
    /\ pc' = "reset"
    /\ UNCHANGED << storeVars, boidParams, tick, returned, added, outEntities >>

ResetAcceleration ==
    /\ pc = "reset"
    /\ accelerations' = AccelerationResetSystem(accelerations, entities, entityCount)
    /\ pc' = "separation"
    /\ UNCHANGED << entityCount, entities, positions, velocities, colors, boidParams,
                    spatialGrid, tick, returned, added, outEntities >>

Separation ==
    /\ pc = "separation"
    /\ accelerations' = BoidSeparationSystem(spatialGrid, positions, velocities,
                            accelerations, entities, entityCount, boidParams)
    /\ pc' = "alignment"
    /\ UNCHANGED << entityCount, entities, positions, velocities, colors, boidParams,
                    spatialGrid, tick, returned, added, outEntities >>

Alignment ==
    /\ pc = "alignment"
    /\ accelerations' = BoidAlignmentSystem(spatialGrid, positions, velocities,
                            accelerations, entities, entityCount, boidParams)
    /\ pc' = "cohesion"
    /\ UNCHANGED << entityCount, entities, positions, velocities, colors, boidParams,
                    spatialGrid, tick, returned, added, outEntities >>

Cohesion ==
    /\ pc = "cohesion"
    /\ accelerations' = BoidCohesionSystem(spatialGrid, positions, velocities,
                            accelerations, entities, entityCount, boidParams)
    /\ pc' = "physics"
    /\ UNCHANGED << entityCount, entities, positions, velocities, colors, boidParams,
                    spatialGrid, tick, returned, added, outEntities >>

Physics ==
    /\ pc = "physics"
    /\ LET r == PhysicsSystem(positions, velocities, accelerations, entities,
                              entityCount, boidParams.maxSpeed)
       IN  /\ velocities' = r.vel
           /\ positions' = r.pos
    /\ pc' = "wrap"
    /\ UNCHANGED << entityCount, entities, accelerations, colors, boidParams,
                    spatialGrid, tick, returned, added, outEntities >>

WrapAround ==
    /\ pc = "wrap"
    /\ positions' = WrapAroundSystem(positions, entities, entityCount,
                                     SCREEN_WIDTH, SCREEN_HEIGHT)
    /\ pc' = "draw"
    /\ UNCHANGED << entityCount, entities, velocities, accelerations, colors,
                    boidParams, spatialGrid, tick, returned, added, outEntities >>

\* BeginDrawing .. EndDrawing: reads the store, changes none of it.
Draw ==
    /\ pc = "draw"
    /\ pc' = "loop"
    /\ tick' = tick + 1
    /\ UNCHANGED << storeVars, boidParams, spatialGrid, returned, added, outEntities >>

Frame ==
    \/ HandleInput
    \/ RebuildGrid
    \/ ResetAcceleration
    \/ Separation
    \/ Alignment
    \/ Cohesion
    \/ Physics
    \/ WrapAround
    \/ Draw
    \/ WindowShouldClose

Next == CreateRandomEntity \/ Frame

Spec == Init /\ [][Next]_vars

---------------------------------------------------------------------------
\* The systems run on a store main did not create: every slot filled, each
\* agent active or not, at rest or moving, inside or outside the world.

Anchor == Vec(F(100), F(100))

\* Agents at 1, 10 and 20 units from the anchor: inside the separation
\* radius, on it, and on the perception radius.
FlockPositions ==
    { Anchor,
      Vector2Add(Anchor, Vec(F(1), 0)),
      Vector2Add(Anchor, Vec(DefaultParams.separationRadius, 0)),
      Vector2Add(Anchor, Vec(DefaultParams.perceptionRadius, 0)) }

FlockVelocities == { Zero, Vec(F(1), -F(1)) }

\* Agents on the edges of the world, next to them and outside it.
EdgePositions ==
    { Vec(0, F(SCREEN_HEIGHT)),
      Vec(F(SCREEN_WIDTH), 0),
      Vec(F(SCREEN_WIDTH) - F(1), F(1)),
      Vec(-F(60), F(SCREEN_HEIGHT) + F(60)) }

\* At rest, and faster than maxSpeed.
EdgeVelocities == { Zero, Vec(F(4) - 14, -F(5) - 8) }

\* Every agent active, or every one but the last.
ActivePatterns == { [i \in Ids |-> TRUE], [i \in Ids |-> i # MAX_ENTITIES - 1] }

InitFrom(positionSet, velocitySet) ==
    /\ entityCount = MAX_ENTITIES
    /\ entities \in ActivePatterns
    /\ positions \in [Ids -> positionSet]
    /\ velocities \in [Ids -> velocitySet]
    /\ accelerations = EmptyStore.accelerations
    /\ colors = EmptyStore.colors
    /\ boidParams = DefaultParams
    /\ spatialGrid = EmptyGrid
    /\ pc = "loop"
    /\ tick = 0
    /\ returned = << >>
    /\ added = << >>
    /\ outEntities = << >>

InitFlock == InitFrom(FlockPositions, FlockVelocities)
InitEdge == InitFrom(EdgePositions, EdgeVelocities)

SpecFlock == InitFlock /\ [][Frame]_vars
SpecEdge == InitEdge /\ [][Frame]_vars

---------------------------------------------------------------------------
\* The store and the grid called directly, as a test of them would.

InitInterface ==
    /\ entityCount = EmptyStore.entityCount
    /\ entities = EmptyStore.entities
    /\ positions = EmptyStore.positions
    /\ velocities = EmptyStore.velocities
    /\ accelerations = EmptyStore.accelerations
    /\ colors = EmptyStore.colors
    /\ boidParams = DefaultParams
    /\ spatialGrid = EmptyGrid
    /\ pc = "interface"
    /\ tick = 0
    /\ returned = << >>
    /\ added = << >>
    /\ outEntities = << >>

\* A call of CreateEntity, at capacity or below it.
CallCreateEntity ==
    /\ pc = "interface"
    /\ Len(returned) < MaxCalls
    /\ \E position \in RandomPositions, velocity \in RandomVelocities,
          color \in PaletteColors :
          LET r == CreateEntity(Store, position, velocity, color)
          IN  /\ SetStore(r.st)
              /\ returned' = Append(returned, r.id)
    /\ UNCHANGED << boidParams, spatialGrid, pc, tick, added, outEntities >>

SpecStore == InitInterface /\ [][CallCreateEntity]_vars

\* Positions handed to the grid: in the world, on a cell border, on the far
\* corner of the world, and outside the world on either side.
GridPositions ==
    { Vec(F(10), F(10)),
      Vec(F(CELL_SIZE), F(10)),
      Vec(F(SCREEN_WIDTH), F(SCREEN_HEIGHT)),
      Vec(F(SCREEN_WIDTH) + F(CELL_SIZE), F(700)),
      Vec(-F(60), F(700)) }

GridRadii == { 0, F(60) }

\* Sizes of the result buffer: one id, and every id the grid can hold.
GridMaxResults == { 1, MaxCalls }

CallClearSpatialGrid ==
    /\ pc = "interface"
    /\ spatialGrid' = ClearSpatialGrid(spatialGrid)
    /\ added' = << >>
    /\ UNCHANGED << storeVars, boidParams, pc, tick, returned, outEntities >>

\* The insert of a new agent: its id, its position and whether the grid took it.
CallAddToSpatialGrid ==
    /\ pc = "interface"
    /\ Len(added) < MaxCalls
    /\ \E pos \in GridPositions :
          LET id == Len(added)
          IN  /\ spatialGrid' = AddToSpatialGrid(spatialGrid, id, pos)
              /\ added' = Append(added, [id |-> id, pos |-> pos,
                                         stored |-> spatialGrid' # spatialGrid])
    /\ UNCHANGED << storeVars, boidParams, pc, tick, returned, outEntities >>

CallQuerySpatialGrid ==
    /\ pc = "interface"
    /\ \E pos \in GridPositions, radius \in GridRadii, maxResults \in GridMaxResults :
          outEntities' = QuerySpatialGrid(spatialGrid, pos, radius, maxResults)
    /\ UNCHANGED << storeVars, boidParams, spatialGrid, pc, tick, returned, added >>

NextGrid == CallClearSpatialGrid \/ CallAddToSpatialGrid \/ CallQuerySpatialGrid

SpecGrid == InitInterface /\ [][NextGrid]_vars

---------------------------------------------------------------------------
\* Agent creation and capacity (checked under SpecStore).

\* The valid ids among the values CreateEntity has returned.
IsValidId(r) == r >= 0
ValidReturned == SelectSeq(returned, IsValidId)

\* A CreateEntity call seen as a step: below capacity the agent lands at
\* index entityCount, active and with zero acceleration, that index is
\* returned and entityCount grows by one; at capacity -1 is returned and the
\* store is left as it was.
CreateEntityStep ==
    IF entityCount < MAX_ENTITIES
    THEN /\ entities'[entityCount]
         /\ accelerations'[entityCount] = Zero
         /\ positions'[entityCount] \in RandomPositions
         /\ velocities'[entityCount] \in RandomVelocities
         /\ returned'[Len(returned')] = entityCount
         /\ entityCount' = entityCount + 1
    ELSE /\ returned'[Len(returned')] = -1
         /\ UNCHANGED storeVars

\* C7: below capacity CreateEntity stores the agent active with zero
\* acceleration at index entityCount, returns that index and increments
\* entityCount; at capacity it returns -1 and changes no array; entityCount
\* stays within 0 .. MAX_ENTITIES and the valid ids returned are 0, 1, 2, ...
\* in call order.
C7_CreateEntityCapacity ==
    /\ [](/\ 0 <= entityCount
          /\ entityCount <= MAX_ENTITIES
          /\ \A k \in 1 .. Len(ValidReturned) : ValidReturned[k] = k - 1
          /\ Len(ValidReturned) = entityCount)
    /\ [][CreateEntityStep]_vars

\* A call at capacity has returned -1.
C7_Witness ==
    /\ entityCount = MAX_ENTITIES
    /\ Len(returned) > MAX_ENTITIES
    /\ returned[Len(returned)] = -1

---------------------------------------------------------------------------
\* The grid (checked under SpecGrid).

Range(seq) == { seq[k] : k \in 1 .. Len(seq) }

\* The first n elements of seq.
Take(seq, n) == SubSeq(seq, 1, Min(Len(seq), n))

\* The ids inserted since the last clear whose position falls, after
\* clamping, in cell (x, y), in insertion order.
RECURSIVE AddedTo(_, _, _)
AddedTo(x, y, k) ==
    IF k > Len(added) THEN << >>
    ELSE LET e == added[k]
         IN  (IF /\ ClampCell(CellIndex(e.pos.x), GRID_WIDTH) = x
                 /\ ClampCell(CellIndex(e.pos.y), GRID_HEIGHT) = y
              THEN << e.id >> ELSE << >>) \o AddedTo(x, y, k + 1)

\* The cells the inserts since the last clear fall in; no other cell can
\* hold an id.
TargetCells ==
    { << ClampCell(CellIndex(added[k].pos.x), GRID_WIDTH),
         ClampCell(CellIndex(added[k].pos.y), GRID_HEIGHT) >> : k \in 1 .. Len(added) }

\* The inserts the grid did not take.
Dropped == { k \in 1 .. Len(added) : ~added[k].stored }

\* Whether a is within radius of p, on exact distances.
Within(a, p, radius) ==
    /\ Abs(a.x - p.x) <= radius
    /\ Abs(a.y - p.y) <= radius
    /\ MagSq(Vector2Subtract(a, p)) <= radius * radius

\* C8: every cell holds at most MAX_ENTITIES_PER_CELL ids; a cell holds the
\* first MAX_ENTITIES_PER_CELL ids inserted into it, so an insert into a full
\* cell changes nothing and overwrites nothing; and no query returns the id
\* of a dropped insert.
C8_CellCapacity ==
    /\ DOMAIN spatialGrid \subseteq TargetCells
    /\ \A c \in TargetCells :
          /\ Len(Cell(spatialGrid, c[1], c[2])) <= MAX_ENTITIES_PER_CELL
          /\ Cell(spatialGrid, c[1], c[2])
                = Take(AddedTo(c[1], c[2], 1), MAX_ENTITIES_PER_CELL)
    /\ \A k \in Dropped :
          \A pos \in GridPositions, radius \in GridRadii, maxResults \in GridMaxResults :
             added[k].id \notin Range(QuerySpatialGrid(spatialGrid, pos, radius, maxResults))

\* An insert was dropped by a full cell.
C8_Witness ==
    \E k \in Dropped :
       Len(Cell(spatialGrid, ClampCell(CellIndex(added[k].pos.x), GRID_WIDTH),
                             ClampCell(CellIndex(added[k].pos.y), GRID_HEIGHT)))
          = MAX_ENTITIES_PER_CELL

\* C2: an agent inserted alone into a cleared grid at any position, in the
\* world or outside it, is among the ids a query of radius 0 at its own
\* position returns.
C2_SelfContainment ==
    Len(added) = 1 =>
       added[1].id \in Range(QuerySpatialGrid(spatialGrid, added[1].pos, 0, MaxCalls))

\* C1: when no insert was dropped, a query at any centre with any radius
\* returns every inserted agent whose distance to the centre is at most the
\* radius (the result buffer being large enough for every id).
C1_QuerySuperset ==
    Dropped = {} =>
       \A pos \in GridPositions, radius \in GridRadii :
          \A k \in 1 .. Len(added) :
             Within(added[k].pos, pos, radius) =>
                added[k].id \in Range(QuerySpatialGrid(spatialGrid, pos, radius, MaxCalls))

---------------------------------------------------------------------------
\* The steering systems (checked under SpecFlock and Spec).

ActiveIds == { i \in Ids : i < entityCount /\ entities[i] }

InWorld(p) ==
    /\ 0 <= p.x /\ p.x <= F(SCREEN_WIDTH)
    /\ 0 <= p.y /\ p.y <= F(SCREEN_HEIGHT)

\* The positions the grid was rebuilt from are the current ones: the force
\* phase of a frame.
InForcePhase == pc \in {"separation", "alignment", "cohesion"}

\* i and j are the only active agents, at rest, one unit apart inside the
\* world, and the parameters are the defaults.
TwoAgentsOneApart(i, j) ==
    /\ i # j
    /\ ActiveIds = {i, j}
    /\ velocities[i] = Zero /\ velocities[j] = Zero
    /\ InWorld(positions[i]) /\ InWorld(positions[j])
    /\ MagSq(Vector2Subtract(positions[i], positions[j])) = F(1) * F(1)
    /\ boidParams = DefaultParams

\* a is a positive multiple of the vector from j to i.
PointsAway(a, i, j) ==
    LET d == Vector2Subtract(positions[i], positions[j])
    IN  /\ a.x * d.y - a.y * d.x = 0
        /\ a.x * d.x + a.y * d.y > 0

\* The magnitudes 0.7 * 3.0 and 0.7 * 0.5.
SeparationPush == FMul(DefaultParams.maxForce, DefaultParams.separationWeight)
CohesionPull == FMul(DefaultParams.maxForce, DefaultParams.cohesionWeight)

\* C3 as stated: after the force phase of the two-agent scenario each
\* agent's acceleration points away from the other with magnitude
\* 0.7 * 3.0 = 2.1.
C3_TwoAgentsAsStated ==
    pc = "physics" =>
       \A i \in Ids, j \in Ids :
          TwoAgentsOneApart(i, j) =>
             /\ PointsAway(accelerations[i], i, j)
             /\ MagSq(accelerations[i]) = SeparationPush * SeparationPush

\* C3 as amended: after the force phase of the two-agent scenario each
\* agent's acceleration points away from the other with magnitude
\* 0.7 * 3.0 - 0.7 * 0.5 = 1.75: separation pushes away with 2.1, alignment
\* adds nothing and cohesion pulls back with 0.35.
C3_TwoAgents ==
    pc = "physics" =>
       \A i \in Ids, j \in Ids :
          TwoAgentsOneApart(i, j) =>
             /\ PointsAway(accelerations[i], i, j)
             /\ MagSq(accelerations[i])
                   = (SeparationPush - CohesionPull) * (SeparationPush - CohesionPull)

\* The force phase of the two-agent scenario has run.
C3_Witness ==
    /\ pc = "physics"
    /\ \E i \in Ids, j \in Ids : TwoAgentsOneApart(i, j)

\* The candidates agent i gets from the grid for a radius, and how many of
\* them satisfy a condition.
Candidates(i, radius) ==
    QuerySpatialGrid(spatialGrid, positions[i], radius, NearbyCapacity)

DistanceTo(i, j) == Vector2Distance(positions[i], positions[j])

\* C9 as stated: in each system a candidate j counts as a neighbour of i
\* unless j = i, j is inactive or its distance exceeds the radius; a
\* candidate at exactly the radius counts.
C9_NeighbourFilterAsStated ==
    InForcePhase =>
       \A i \in ActiveIds :
          LET sep == Candidates(i, boidParams.separationRadius)
              per == Candidates(i, boidParams.perceptionRadius)
              near(c, radius) ==
                  Cardinality({ k \in 1 .. Len(c) :
                      /\ c[k] # i
                      /\ entities[c[k]]
                      /\ DistanceTo(i, c[k]) <= radius })
          IN  /\ SeparationFound(spatialGrid, positions, entities, boidParams, i).total
                    = near(sep, boidParams.separationRadius)
              /\ AlignmentFound(spatialGrid, positions, velocities, entities,
                                boidParams, i).total
                    = near(per, boidParams.perceptionRadius)
              /\ CohesionFound(spatialGrid, positions, entities, boidParams, i).total
                    = near(per, boidParams.perceptionRadius)

\* C9 as amended: a candidate j counts as a neighbour of i exactly when
\* j # i, j is active and its distance is strictly below the radius (and,
\* for separation, above zero); a candidate at exactly the radius does not
\* count.
C9_NeighbourFilter ==
    InForcePhase =>
       \A i \in ActiveIds :
          LET sep == Candidates(i, boidParams.separationRadius)
              per == Candidates(i, boidParams.perceptionRadius)
              below(c, radius, least) ==
                  Cardinality({ k \in 1 .. Len(c) :
                      /\ c[k] # i
                      /\ entities[c[k]]
                      /\ DistanceTo(i, c[k]) < radius
                      /\ DistanceTo(i, c[k]) >= least })
          IN  /\ SeparationFound(spatialGrid, positions, entities, boidParams, i).total
                    = below(sep, boidParams.separationRadius, 1)
              /\ AlignmentFound(spatialGrid, positions, velocities, entities,
                                boidParams, i).total
                    = below(per, boidParams.perceptionRadius, 0)
              /\ CohesionFound(spatialGrid, positions, entities, boidParams, i).total
                    = below(per, boidParams.perceptionRadius, 0)

\* An active agent has an active candidate at exactly the separation
\* radius, which its separation pass does not count.
C9_Witness ==
    /\ InForcePhase
    /\ \E i \in ActiveIds :
          /\ \E k \in 1 .. Len(Candidates(i, boidParams.separationRadius)) :
                LET j == Candidates(i, boidParams.separationRadius)[k]
                IN  j # i /\ entities[j] /\ DistanceTo(i, j) = boidParams.separationRadius
          /\ SeparationFound(spatialGrid, positions, entities, boidParams, i).total = 0

\* The three systems applied to an acceleration array, in one order.
AfterSeparation(acc) ==
    BoidSeparationSystem(spatialGrid, positions, velocities, acc, entities,
                         entityCount, boidParams)
AfterAlignment(acc) ==
    BoidAlignmentSystem(spatialGrid, positions, velocities, acc, entities,
                        entityCount, boidParams)
AfterCohesion(acc) ==
    BoidCohesionSystem(spatialGrid, positions, velocities, acc, entities,
                       entityCount, boidParams)

\* Acceleration arrays to start from: the one main has reset, and one that
\* is not zero.
StartAccelerations == { accelerations, [i \in Ids |-> Vec(F(1), -F(2))] }

\* C6: from the same store, grid and accelerations the three systems leave
\* the same accelerations in each of their six orders.
C6_OrderIndependence ==
    pc = "separation" =>
       \A acc \in StartAccelerations :
          LET sac == AfterCohesion(AfterAlignment(AfterSeparation(acc)))
          IN  /\ AfterAlignment(AfterCohesion(AfterSeparation(acc))) = sac
              /\ AfterCohesion(AfterSeparation(AfterAlignment(acc))) = sac
              /\ AfterSeparation(AfterCohesion(AfterAlignment(acc))) = sac
              /\ AfterAlignment(AfterSeparation(AfterCohesion(acc))) = sac
              /\ AfterSeparation(AfterAlignment(AfterCohesion(acc))) = sac

\* Some agent gets a force from each of the three systems.
C6_Witness ==
    /\ pc = "separation"
    /\ \E i \in ActiveIds :
          /\ SeparationForce(spatialGrid, positions, velocities, entities, boidParams, i)
                # Zero
          /\ AlignmentForce(spatialGrid, positions, velocities, entities, boidParams, i)
                # Zero
          /\ CohesionForce(spatialGrid, positions, velocities, entities, boidParams, i)
                # Zero

---------------------------------------------------------------------------
\* The integrator and the boundary wrap (checked under SpecEdge).

\* The rounding error the model's Vector2Limit can add to a length: each
\* component of its result is within 3.5 / SCALE of the exact one.
SpeedTolerance == SCALE \div 20

\* Accelerations PhysicsSystem may be handed, besides the ones the force
\* systems leave.
TestAccelerations == { Vec(F(30), F(40)), Vec(-F(7), F(1)), Vec(1, -1) }

Square(n) == n * n

\* C4 as stated: after PhysicsSystem the speed of every active agent is at
\* most maxSpeed.
C4_SpeedClampAsStated ==
    pc = "wrap" =>
       \A i \in ActiveIds : MagSq(velocities[i]) <= Square(boidParams.maxSpeed)

\* C4 as amended: after PhysicsSystem, for any prior velocity and any
\* acceleration, the speed of every active agent is at most maxSpeed plus
\* the rounding error of Vector2Limit.
C4_SpeedClamp ==
    /\ pc = "wrap" =>
          \A i \in ActiveIds :
             MagSq(velocities[i]) <= Square(boidParams.maxSpeed + SpeedTolerance)
    /\ pc = "physics" =>
          \A a \in TestAccelerations :
             LET r == PhysicsSystem(positions, velocities, [i \in Ids |-> a], entities,
                                    entityCount, boidParams.maxSpeed)
             IN  \A i \in ActiveIds :
                    MagSq(r.vel[i]) <= Square(boidParams.maxSpeed + SpeedTolerance)

\* PhysicsSystem has run and has limited the velocity of an active agent.
C4_Witness ==
    /\ pc = "wrap"
    /\ \E i \in ActiveIds :
          MagSq(velocities[i]) >= Square(boidParams.maxSpeed - SpeedTolerance)

\* The positions one more call of WrapAroundSystem would leave.
Wrapped(pos) == WrapAroundSystem(pos, entities, entityCount, SCREEN_WIDTH, SCREEN_HEIGHT)

OnEdge(c, extent) == c = 0 \/ c = F(extent)

\* C5 as stated: WrapAroundSystem moves a coordinate that is exactly 0 to
\* the extent and one that is exactly the extent to 0, and a second call
\* changes nothing.
C5_WrapAtEdgesAsStated ==
    pc = "wrap" =>
       \A i \in ActiveIds :
          LET p == positions[i]
              w == Wrapped(positions)
          IN  /\ p.x = 0 => w[i].x = F(SCREEN_WIDTH)
              /\ p.x = F(SCREEN_WIDTH) => w[i].x = 0
              /\ p.y = 0 => w[i].y = F(SCREEN_HEIGHT)
              /\ p.y = F(SCREEN_HEIGHT) => w[i].y = 0
              /\ (OnEdge(p.x, SCREEN_WIDTH) \/ OnEdge(p.y, SCREEN_HEIGHT))
                    => Wrapped(w)[i] = w[i]

\* C5 as amended: WrapAroundSystem leaves a coordinate that is exactly 0 or
\* exactly the extent where it is, and a second call changes nothing.
C5_WrapAtEdges ==
    pc = "wrap" =>
       \A i \in ActiveIds :
          LET p == positions[i]
              w == Wrapped(positions)
          IN  /\ OnEdge(p.x, SCREEN_WIDTH) => w[i].x = p.x
              /\ OnEdge(p.y, SCREEN_HEIGHT) => w[i].y = p.y
              /\ (OnEdge(p.x, SCREEN_WIDTH) \/ OnEdge(p.y, SCREEN_HEIGHT))
                    => Wrapped(w)[i] = w[i]

\* WrapAroundSystem has run on an agent at rest at x = 0 and y = the extent,
\* and on one at rest at x = the extent and y = 0.
C5_Witness ==
    /\ pc = "draw"
    /\ tick = 0
    /\ \E i \in ActiveIds :
          velocities[i] = Zero /\ positions[i] = Vec(0, F(SCREEN_HEIGHT))
    /\ \E i \in ActiveIds :
          velocities[i] = Zero /\ positions[i] = Vec(F(SCREEN_WIDTH), 0)

\* The positions are the ones WrapAroundSystem left: from the end of a
\* frame's wrap to the next frame's integration.
AfterWrap == pc = "draw" \/ (tick >= 1 /\ pc \notin {"wrap"})

\* C10: WrapAroundSystem leaves every active agent inside
\* [0, width] x [0, height] whatever its position was; so from the first
\* wrap on, and from the start for agents created inside the world, every
\* grid rebuild maps each active agent to a valid cell without the clamp;
\* and WrapAroundSystem applied again changes nothing.
C10_PositionBounds ==
    /\ pc = "wrap" =>
          /\ \A i \in ActiveIds : InWorld(Wrapped(positions)[i])
          /\ Wrapped(Wrapped(positions)) = Wrapped(positions)
    /\ AfterWrap =>
          /\ \A i \in ActiveIds : InWorld(positions[i])
          /\ Wrapped(positions) = positions
    /\ pc = "grid" =>
          \A i \in ActiveIds :
             (tick >= 1 \/ InWorld(positions[i])) =>
                /\ CellIndex(positions[i].x) \in CellXs
                /\ CellIndex(positions[i].y) \in CellYs

\* A second frame rebuilds the grid after the wrap moved a moving agent from
\* beyond the right and top edges to x = 0 and y = the extent.
C10_Witness ==
    /\ pc = "grid"
    /\ tick >= 1
    /\ \E i \in ActiveIds :
          velocities[i] # Zero /\ positions[i] = Vec(0, F(SCREEN_HEIGHT))

====
